---- MODULE Spec2Model ----
(***************************************************************************)
(* Model of the spaced-repetition core of GreengoLingo                     *)
(* (rust/src/srs/card.rs, rust/src/srs/scheduler.rs).                      *)
(*                                                                         *)
(* Representation choices                                                  *)
(*  - Strings are sequences of ASCII codes, so that split, parse, format    *)
(*    and the lexicographic comparison of is_due are computed as the code  *)
(*    computes them.                                                       *)
(*  - ease_factor (f32) is a fixed-point integer in hundredths: 2.5 is     *)
(*    250.  The SM-2 deltas of the code are +0.10, 0.00, -0.14 and -0.20,   *)
(*    all on that grid.  In f32 the quality-4 delta is 7.5e-9, less than    *)
(*    half a unit in the last place of any ease factor in the band, so the  *)
(*    sum rounds back to the old value; the rounding error of the other     *)
(*    deltas is far below one hundredth per review.                         *)
(*  - u32 fields keep a width: arithmetic is modulo U32_MAX + 1 in a       *)
(*    build without overflow checks and panics in a build with them.       *)
(***************************************************************************)
EXTENDS Integers, Sequences, FiniteSets, TLC

VARIABLES card, update, quality, current_date, pc, panicked, overflow_checks,
          bank, op, ret

vars == <<card, update, quality, current_date, pc, panicked, overflow_checks,
          bank, op, ret>>

\* the variables of a card under review
cardVars == <<card, update, quality, current_date, pc, panicked>>

\* the vocabulary bank, the last call made on it or on a pure function, and
\* what that call returned
callVars == <<bank, op, ret>>

----------------------------------------------------------------------------
(* Bounds of the model *)

\* number of reviews a card receives in Spec
MaxReviews == 7
\* largest quality rating the caller passes (u8, values above 5 included)
MaxQuality == 6
\* largest value of the scaled unsigned width standing for u32
U32_MAX == 2047

----------------------------------------------------------------------------
(* Characters and strings *)

DASH == 45
PLUS == 43
ZERO == 48

IsDigit(c) == c >= 48 /\ c <= 57

\* the dates the callers pass, "YYYY-MM-DD"
D_2024_01_15 == <<50,48,50,52,45,48,49,45,49,53>>
D_2024_02_28 == <<50,48,50,52,45,48,50,45,50,56>>
D_2023_12_31 == <<50,48,50,51,45,49,50,45,51,49>>

\* the dates cards are reviewed on in Spec
ReviewDates == {D_2024_02_28, D_2023_12_31}
\* the dates calculate_next_review is given in SpecAny
Dates == {D_2024_01_15, D_2024_02_28, D_2023_12_31}

\* str <= str of Rust: byte-wise lexicographic order
RECURSIVE StrLe(_, _)
StrLe(a, b) ==
    IF a = <<>> THEN TRUE
    ELSE IF b = <<>> THEN FALSE
    ELSE IF Head(a) < Head(b) THEN TRUE
    ELSE IF Head(a) > Head(b) THEN FALSE
    ELSE StrLe(Tail(a), Tail(b))

\* date.split('-').collect()
RECURSIVE SplitFrom(_, _, _)
SplitFrom(s, i, cur) ==
    IF i > Len(s) THEN <<cur>>
    ELSE IF s[i] = DASH THEN <<cur>> \o SplitFrom(s, i + 1, <<>>)
    ELSE SplitFrom(s, i + 1, Append(cur, s[i]))

Split(s) == SplitFrom(s, 1, <<>>)

\* value of a digit string; -1 when it exceeds max
RECURSIVE DigitsValue(_, _, _)
DigitsValue(s, acc, max) ==
    IF s = <<>> THEN acc
    ELSE LET v == acc * 10 + (Head(s) - ZERO)
         IN  IF v > max THEN -1 ELSE DigitsValue(Tail(s), v, max)

\* s.parse().unwrap_or(default) for an integer type with the given maximum:
\* an optional '+', then one or more digits, no overflow
ParseOr(s, max, default) ==
    LET body == IF s # <<>> /\ Head(s) = PLUS THEN Tail(s) ELSE s
    IN  IF body = <<>> \/ \E i \in 1..Len(body) : ~IsDigit(body[i])
        THEN default
        ELSE LET v == DigitsValue(body, 0, max)
             IN  IF v < 0 THEN default ELSE v

\* decimal digits of n >= 0
RECURSIVE Digits(_)
Digits(n) == IF n < 10 THEN <<ZERO + n>> ELSE Append(Digits(n \div 10), ZERO + (n % 10))

RECURSIVE ZeroPad(_, _)
ZeroPad(s, w) == IF Len(s) >= w THEN s ELSE ZeroPad(<<ZERO>> \o s, w)

\* format!("{:0w}", n)
Pad(n, w) ==
    IF n >= 0 THEN ZeroPad(Digits(n), w)
    ELSE <<DASH>> \o ZeroPad(Digits(-n), w - 1)

----------------------------------------------------------------------------
(* Option<T> *)

None == <<"None">>
Some(x) == <<"Some", x>>

----------------------------------------------------------------------------
(* rust/src/srs/card.rs *)

\* lowest and highest ease factor, in hundredths
EF_MIN == 130
EF_MAX == 250

SRSCard_new(word_id, source_word, target_word, language_pair, level, lesson_id, date) ==
    [ word_id          |-> word_id,
      source_word      |-> source_word,
      target_word      |-> target_word,
      language_pair    |-> language_pair,
      level            |-> level,
      lesson_id        |-> lesson_id,
      pronunciation    |-> None,
      example_sentence |-> None,
      ease_factor      |-> 250,
      interval         |-> 0,
      repetitions      |-> 0,
      next_review_date |-> date,
      last_reviewed    |-> None,
      total_reviews    |-> 0,
      correct_reviews  |-> 0,
      last_quality     |-> None,
      created_at       |-> date ]

is_due_Strict(c, date) == c.next_review_date # date /\ StrLe(c.next_review_date, date)

is_due(c, date) == StrLe(c.next_review_date, date)

\* f32 arithmetic on values >= 0: <<m, e>> stands for m * 2^e with
\* 2^23 <= m < 2^24, and <<0, 0>> for 0.0
F32_ZERO == <<0, 0>>
TWO23 == 8388608
TWO24 == 16777216

RECURSIVE Pow2(_)
Pow2(n) == IF n = 0 THEN 1 ELSE 2 * Pow2(n - 1)

\* round to nearest, ties to even: q with the fraction num / den left over
RoundEven(q, num, den) ==
    IF 2 * num > den \/ (2 * num = den /\ q % 2 = 1) THEN q + 1 ELSE q

\* <<m, e>> after a rounding that may have carried into bit 24
Carry(m, e) == IF m = TWO24 THEN <<TWO23, e + 1>> ELSE <<m, e>>

\* the f32 nearest to (q + r / den) * 2^e, for 0 <= r < den and q < 2^24
RECURSIVE F32Normalize(_, _, _, _)
F32Normalize(q, r, den, e) ==
    IF q = 0 /\ r = 0 THEN F32_ZERO
    ELSE IF q < TWO23
         THEN F32Normalize(2 * q + (IF 2 * r >= den THEN 1 ELSE 0),
                           (2 * r) % den, den, e - 1)
         ELSE Carry(RoundEven(q, r, den), e)

\* a as f32 / b as f32, for integers a >= 0, b > 0 below 2^24
F32DivInt(a, b) == F32Normalize(a \div b, a % b, b, 0)

\* x / n as f32, for an f32 x and an integer n > 0
F32Div(x, n) == F32Normalize(x[1] \div n, x[1] % n, n, x[2])

\* x * 100.0
F32Mul100(x) ==
    IF x[1] = 0 THEN F32_ZERO
    ELSE LET p == 100 * x[1]
             k == IF p < Pow2(30) THEN 6 ELSE 7
         IN  Carry(RoundEven(p \div Pow2(k), p % Pow2(k), Pow2(k)), x[2] + k)

\* x + y
F32Add(x, y) ==
    IF x[1] = 0 THEN y
    ELSE IF y[1] = 0 THEN x
    ELSE LET hi == IF x[2] >= y[2] THEN x ELSE y
             lo == IF x[2] >= y[2] THEN y ELSE x
             g  == hi[2] - lo[2]
         IN  IF g > 25 THEN hi
             ELSE LET d == Pow2(g)
                      t == hi[1] + (lo[1] \div d)
                      r == lo[1] % d
                  IN  IF t < TWO24
                      THEN Carry(RoundEven(t, r, d), hi[2])
                      ELSE Carry(RoundEven(t \div 2, (t % 2) * d + r, 2 * d), hi[2] + 1)

\* x < n, for an f32 x and a whole number 0 <= n <= 127
F32Lt(x, n) ==
    IF x[1] = 0 THEN 0 < n
    ELSE IF x[2] >= 0 THEN FALSE
    ELSE IF -x[2] > 24 THEN n >= 1
    ELSE x[1] < n * Pow2(-x[2])

accuracy_rate(c) ==
    IF c.total_reviews = 0 THEN F32_ZERO
    ELSE F32Mul100(F32DivInt(c.correct_reviews, c.total_reviews))

is_weak_Both(c, ease_threshold, accuracy_threshold) ==
    c.ease_factor < ease_threshold /\ F32Lt(accuracy_rate(c), accuracy_threshold)

\* ease_threshold in hundredths, accuracy_threshold a whole percentage
is_weak(c, ease_threshold, accuracy_threshold) ==
    c.ease_factor < ease_threshold \/ F32Lt(accuracy_rate(c), accuracy_threshold)

mastery_level_EaseIgnored(c) ==
    IF c.repetitions = 0 THEN "New"
    ELSE IF c.repetitions \in 1..2 THEN "Learning"
    ELSE IF c.repetitions \in 3..5 THEN "Familiar"
    ELSE IF c.repetitions \in 6..10 THEN "Proficient"
    ELSE "Mastered"

\* match (self.repetitions, self.ease_factor): the first arm that fits
mastery_level(c) ==
    LET r  == c.repetitions
        ef == c.ease_factor
    IN  IF r = 0 THEN "New"
        ELSE IF r \in 1..2 THEN "Learning"
        ELSE IF r \in 3..5 /\ ef >= 200 THEN "Familiar"
        ELSE IF r \in 6..10 /\ ef >= 220 THEN "Proficient"
        ELSE IF r > 10 /\ ef >= 240 THEN "Mastered"
        ELSE "Learning"

\* cards.iter().filter(|c| c.mastery_level() == level).count()
CountLevel(cards, level) ==
    Cardinality({n \in 1..Len(cards) : mastery_level(cards[n]) = level})

RECURSIVE SumEase(_, _)
SumEase(cards, n) == IF n = 0 THEN 0 ELSE SumEase(cards, n - 1) + cards[n].ease_factor

\* the f32 sum of the accuracy rates of the first n cards
RECURSIVE SumAccuracy(_, _)
SumAccuracy(cards, n) ==
    IF n = 0 THEN F32_ZERO ELSE F32Add(SumAccuracy(cards, n - 1), accuracy_rate(cards[n]))

\* average_ease_factor is in hundredths, as the ease factors are
SRSCardStats_from_cards(cards, date) ==
    LET total_cards == Len(cards)
    IN  IF total_cards = 0
        THEN [ total_cards         |-> 0,
               due_today           |-> 0,
               new_cards           |-> 0,
               learning_cards      |-> 0,
               familiar_cards      |-> 0,
               proficient_cards    |-> 0,
               mastered_cards      |-> 0,
               average_ease_factor |-> F32_ZERO,
               average_accuracy    |-> F32_ZERO ]
        ELSE LET cards_with_reviews == SelectSeq(cards, LAMBDA c : c.total_reviews > 0)
             IN  [ total_cards         |-> total_cards,
                   due_today           |->
                       Cardinality({n \in 1..Len(cards) : is_due(cards[n], date)}),
                   new_cards           |-> CountLevel(cards, "New"),
                   learning_cards      |-> CountLevel(cards, "Learning"),
                   familiar_cards      |-> CountLevel(cards, "Familiar"),
                   proficient_cards    |-> CountLevel(cards, "Proficient"),
                   mastered_cards      |-> CountLevel(cards, "Mastered"),
                   average_ease_factor |-> F32DivInt(SumEase(cards, total_cards), total_cards),
                   average_accuracy    |->
                       IF Len(cards_with_reviews) = 0 THEN F32_ZERO
                       ELSE F32Div(SumAccuracy(cards_with_reviews, Len(cards_with_reviews)),
                                   Len(cards_with_reviews)) ]

----------------------------------------------------------------------------
(* rust/src/srs/scheduler.rs *)

\* largest value of the scaled signed width standing for i32
I32_MAX == 32767

Min(a, b) == IF a <= b THEN a ELSE b
Max(a, b) == IF a >= b THEN a ELSE b

\* f32::clamp
Clamp(x, lo, hi) == IF x < lo THEN lo ELSE IF x > hi THEN hi ELSE x

\* (x as f32).round() as u32 for x given in hundredths: half away from zero,
\* then the saturating float-to-integer cast
RoundToU32(h) ==
    LET r == IF h >= 0 THEN (h + 50) \div 100 ELSE 0 - ((50 - h) \div 100)
    IN  Clamp(r, 0, U32_MAX)

\* mutation: every year divisible by 4 is a leap year
days_in_month_Julian(y, m) ==
    IF m \in {1, 3, 5, 7, 8, 10, 12} THEN 31
    ELSE IF m \in {4, 6, 9, 11} THEN 30
    ELSE IF m = 2 THEN IF y % 4 = 0 THEN 29 ELSE 28
    ELSE 30

days_in_month(y, m) ==
    IF m \in {1, 3, 5, 7, 8, 10, 12} THEN 31
    ELSE IF m \in {4, 6, 9, 11} THEN 30
    ELSE IF m = 2
         THEN IF (y % 4 = 0 /\ y % 100 # 0) \/ (y % 400 = 0) THEN 29 ELSE 28
    ELSE 30

\* the while loop of add_days_to_date; checks: the build panics on overflow
RECURSIVE AddDaysLoop(_, _, _, _)
AddDaysLoop(new_year, new_month, new_day, checks) ==
    IF new_day > days_in_month(new_year, new_month)
    THEN LET d == new_day - days_in_month(new_year, new_month)
         IN  IF new_month + 1 > 12
             THEN IF new_year = I32_MAX
                  THEN IF checks
                       THEN [panic |-> TRUE, y |-> new_year, m |-> 1, d |-> d]
                       ELSE AddDaysLoop(0 - I32_MAX - 1, 1, d, checks)
                  ELSE AddDaysLoop(new_year + 1, 1, d, checks)
             ELSE AddDaysLoop(new_year, new_month + 1, d, checks)
    ELSE [panic |-> FALSE, y |-> new_year, m |-> new_month, d |-> new_day]

add_days_to_date(date, days, checks) ==
    LET parts == Split(date)
    IN  IF Len(parts) # 3 THEN [panic |-> FALSE, value |-> date]
        ELSE LET year  == ParseOr(parts[1], I32_MAX, 2024)
                 month == ParseOr(parts[2], U32_MAX, 1)
                 day   == ParseOr(parts[3], U32_MAX, 1)
                 sum   == day + days
             IN  IF sum > U32_MAX /\ checks
                 THEN [panic |-> TRUE, value |-> date]
                 ELSE LET r == AddDaysLoop(year, month, sum % (U32_MAX + 1), checks)
                      IN  [panic |-> r.panic,
                           value |-> Pad(r.y, 4) \o <<DASH>> \o Pad(r.m, 2)
                                       \o <<DASH>> \o Pad(r.d, 2)]

\* mutation: the quadratic term of the penalty is dropped
EaseDelta_Linear(q) == 10 - (5 - q) * 8

\* 0.1 - (5 - quality) * (0.08 + (5 - quality) * 0.02), in hundredths
EaseDelta(q) == 10 - (5 - q) * (8 + (5 - q) * 2)

\* mutation: the rating is used as given
ClampQuality_Unclamped(q) == q

\* quality.min(5)
ClampQuality(q) == Min(q, 5)

\* mutation: the first two intervals are chosen by the old repetition count
NewInterval_OldReps(c, new_reps) ==
    IF c.repetitions = 1 THEN 1
    ELSE IF c.repetitions = 2 THEN 6
    ELSE RoundToU32(c.interval * c.ease_factor)

\* the interval of a successful review
NewInterval(c, new_reps) ==
    IF new_reps = 1 THEN 1
    ELSE IF new_reps = 2 THEN 6
    ELSE RoundToU32(c.interval * c.ease_factor)

\* mutation: the upper clamp is missing
SuccessEase_NoUpperClamp(c, q) == Max(c.ease_factor + EaseDelta(q), EF_MIN)

\* the ease factor of a successful review
SuccessEase(c, q) == Clamp(c.ease_factor + EaseDelta(q), EF_MIN, EF_MAX)

\* mutation: a failed review resets the ease factor to the default
FailedEase_Reset(c) == EF_MAX

\* the ease factor of a failed review
FailedEase(c) == Max(c.ease_factor - 20, EF_MIN)

calculate_next_review(c, quality_in, date, checks) ==
    LET q              == ClampQuality(quality_in)
        was_successful == q >= 3
        reps_sum       == c.repetitions + 1
        new_reps       == reps_sum % (U32_MAX + 1)
        new_ease       == IF was_successful THEN SuccessEase(c, q) ELSE FailedEase(c)
        new_interval   == IF was_successful THEN NewInterval(c, new_reps) ELSE 1
        next           == add_days_to_date(date, new_interval, checks)
    IN  [ panic            |-> checks /\ ((was_successful /\ reps_sum > U32_MAX) \/ next.panic),
          new_ease_factor  |-> new_ease,
          new_interval     |-> new_interval,
          new_repetitions  |-> IF was_successful THEN new_reps ELSE 0,
          next_review_date |-> next.value,
          quality          |-> q,
          was_successful   |-> was_successful ]

\* mutation: correct_reviews grows on every review
apply_update_AlwaysCorrect(c, u, date, checks) ==
    [ panic |-> FALSE,
      card  |-> [ c EXCEPT !.ease_factor      = u.new_ease_factor,
                           !.interval         = u.new_interval,
                           !.repetitions      = u.new_repetitions,
                           !.next_review_date = u.next_review_date,
                           !.last_reviewed    = Some(date),
                           !.last_quality     = Some(u.quality),
                           !.total_reviews    = c.total_reviews + 1,
                           !.correct_reviews  = c.correct_reviews + 1 ] ]

\* mutation: the interval is added to the card's interval
apply_update_AddInterval(c, u, date, checks) ==
    [ panic |-> FALSE,
      card  |-> [ c EXCEPT !.ease_factor      = u.new_ease_factor,
                           !.interval         = c.interval + u.new_interval,
                           !.repetitions      = u.new_repetitions,
                           !.next_review_date = u.next_review_date,
                           !.last_reviewed    = Some(date),
                           !.last_quality     = Some(u.quality),
                           !.total_reviews    = c.total_reviews + 1,
                           !.correct_reviews  = IF u.was_successful
                                                THEN c.correct_reviews + 1
                                                ELSE c.correct_reviews ] ]

\* mutation: total_reviews grows on failed reviews only
apply_update_TotalOnFailure(c, u, date, checks) ==
    [ panic |-> FALSE,
      card  |-> [ c EXCEPT !.ease_factor      = u.new_ease_factor,
                           !.interval         = u.new_interval,
                           !.repetitions      = u.new_repetitions,
                           !.next_review_date = u.next_review_date,
                           !.last_reviewed    = Some(date),
                           !.last_quality     = Some(u.quality),
                           !.total_reviews    = IF u.was_successful
                                                THEN c.total_reviews
                                                ELSE c.total_reviews + 1,
                           !.correct_reviews  = IF u.was_successful
                                                THEN c.correct_reviews + 1
                                                ELSE c.correct_reviews ] ]

\* returns the card as the call leaves it and whether the call panicked
apply_update(c, u, date, checks) ==
    LET c1 == [ c EXCEPT !.ease_factor      = u.new_ease_factor,
                         !.interval         = u.new_interval,
                         !.repetitions      = u.new_repetitions,
                         !.next_review_date = u.next_review_date,
                         !.last_reviewed    = Some(date),
                         !.last_quality     = Some(u.quality) ]
        c2 == [ c1 EXCEPT !.total_reviews = (c.total_reviews + 1) % (U32_MAX + 1) ]
        c3 == [ c2 EXCEPT !.correct_reviews = (c.correct_reviews + 1) % (U32_MAX + 1) ]
    IN  IF checks /\ c.total_reviews = U32_MAX THEN [panic |-> TRUE, card |-> c1]
        ELSE IF ~u.was_successful THEN [panic |-> FALSE, card |-> c2]
        ELSE IF checks /\ c.correct_reviews = U32_MAX THEN [panic |-> TRUE, card |-> c2]
        ELSE [panic |-> FALSE, card |-> c3]

\* the fields of SRSUpdate
SRSUpdate(r) ==
    [ new_ease_factor  |-> r.new_ease_factor,
      new_interval     |-> r.new_interval,
      new_repetitions  |-> r.new_repetitions,
      next_review_date |-> r.next_review_date,
      quality          |-> r.quality,
      was_successful   |-> r.was_successful ]

get_due_cards(cards, date) == SelectSeq(cards, LAMBDA c : is_due(c, date))

get_weak_cards(cards, ease_threshold, accuracy_threshold) ==
    SelectSeq(cards, LAMBDA c : is_weak(c, ease_threshold, accuracy_threshold))

get_new_cards(cards) == SelectSeq(cards, LAMBDA c : c.total_reviews = 0)

PriorityLess_EaseOnly(a, b, date) == a.ease_factor < b.ease_factor

\* the comparator of sort_by_priority returns Ordering::Less for (a, b)
PriorityLess(a, b, date) ==
    LET a_due == is_due(a, date)
        b_due == is_due(b, date)
    IN  IF a_due # b_due THEN a_due
        ELSE a.ease_factor < b.ease_factor

\* c put into the sorted sequence after every card that is not greater
RECURSIVE InsertByPriority(_, _, _)
InsertByPriority(sorted, c, date) ==
    IF sorted = <<>> THEN <<c>>
    ELSE IF PriorityLess(c, sorted[Len(sorted)], date)
         THEN Append(InsertByPriority(SubSeq(sorted, 1, Len(sorted) - 1), c, date),
                     sorted[Len(sorted)])
         ELSE Append(sorted, c)

\* cards.sort_by(...): a stable sort; the slice as the call leaves it
RECURSIVE sort_by_priority(_, _)
sort_by_priority(cards, date) ==
    IF cards = <<>> THEN <<>>
    ELSE InsertByPriority(sort_by_priority(SubSeq(cards, 1, Len(cards) - 1), date),
                          cards[Len(cards)], date)

----------------------------------------------------------------------------
(* rust/src/srs/vocabulary.rs *)

\* HashMap: a function whose domain is the set of keys
EmptyMap == [k \in {} |-> <<>>]
MapInsert(m, k, v) == [x \in (DOMAIN m) \cup {k} |-> IF x = k THEN v ELSE m[x]]
MapRemove(m, k) == [x \in (DOMAIN m) \ {k} |-> m[x]]

\* str::to_lowercase on ASCII text
to_lowercase(s) == [i \in 1..Len(s) |-> IF s[i] >= 65 /\ s[i] <= 90 THEN s[i] + 32 ELSE s[i]]

\* str::contains
Contains(hay, needle) ==
    \E i \in 0..(Len(hay) - Len(needle)) :
        \A j \in 1..Len(needle) : hay[i + j] = needle[j]

VocabularyItem_new(id, source, target, lesson_id, level, language_pair, category, date) ==
    [ id                  |-> id,
      source              |-> source,
      target              |-> target,
      pronunciation       |-> None,
      example_sentence    |-> None,
      example_translation |-> None,
      lesson_id           |-> lesson_id,
      level               |-> level,
      language_pair       |-> language_pair,
      category            |-> category,
      notes               |-> None,
      tags                |-> <<>>,
      in_srs              |-> FALSE,
      added_at            |-> date ]

matches_query(item, query) ==
    LET query_lower == to_lowercase(query)
    IN  \/ Contains(to_lowercase(item.source), query_lower)
        \/ Contains(to_lowercase(item.target), query_lower)
        \/ \E t \in 1..Len(item.tags) : Contains(to_lowercase(item.tags[t]), query_lower)

VocabularyBank_new ==
    [ items            |-> EmptyMap,
      by_level         |-> EmptyMap,
      by_lesson        |-> EmptyMap,
      by_language_pair |-> EmptyMap,
      by_category      |-> EmptyMap ]

\* index.entry(key).or_default().push(id)
IndexPush(index, key, id) ==
    MapInsert(index, key, Append(IF key \in DOMAIN index THEN index[key] ELSE <<>>, id))

\* ids.retain(|i| i != id)
Retain(ids, id) == SelectSeq(ids, LAMBDA i : i # id)

\* if let Some(ids) = index.get_mut(key) { ids.retain(|i| i != id) }
IndexRetain(index, key, id) ==
    IF key \in DOMAIN index THEN [index EXCEPT ![key] = Retain(index[key], id)] ELSE index

VocabularyBank_add(b, item) ==
    [ items            |-> MapInsert(b.items, item.id, item),
      by_level         |-> IndexPush(b.by_level, item.level, item.id),
      by_lesson        |-> IndexPush(b.by_lesson, item.lesson_id, item.id),
      by_language_pair |-> IndexPush(b.by_language_pair, item.language_pair, item.id),
      by_category      |-> IndexPush(b.by_category, item.category, item.id) ]

VocabularyBank_get(b, id) == IF id \in DOMAIN b.items THEN Some(b.items[id]) ELSE None

\* the bank as the call leaves it, and the value returned
VocabularyBank_remove(b, id) ==
    IF id \in DOMAIN b.items
    THEN LET item == b.items[id]
         IN  [ bank |-> [ items            |-> MapRemove(b.items, id),
                          by_level         |-> IndexRetain(b.by_level, item.level, id),
                          by_lesson        |-> IndexRetain(b.by_lesson, item.lesson_id, id),
                          by_language_pair |-> IndexRetain(b.by_language_pair,
                                                           item.language_pair, id),
                          by_category      |-> IndexRetain(b.by_category, item.category, id) ],
               ret  |-> Some(item) ]
    ELSE [bank |-> b, ret |-> None]

VocabularyBank_len(b) == Cardinality(DOMAIN b.items)

\* index.get(key).map(|ids| ids.iter().filter_map(|id| items.get(id)).collect())
\*      .unwrap_or_default()
IndexLookup(b, index, key) ==
    IF key \in DOMAIN index
    THEN LET present == SelectSeq(index[key], LAMBDA i : i \in DOMAIN b.items)
         IN  [n \in 1..Len(present) |-> b.items[present[n]]]
    ELSE <<>>

VocabularyBank_by_level(b, level) == IndexLookup(b, b.by_level, level)
VocabularyBank_by_lesson(b, lesson_id) == IndexLookup(b, b.by_lesson, lesson_id)
VocabularyBank_by_language_pair(b, language_pair) ==
    IndexLookup(b, b.by_language_pair, language_pair)
VocabularyBank_by_category(b, category) == IndexLookup(b, b.by_category, category)

VocabularyBank_mark_in_srs_MarksAll(b, id) ==
    IF id \in DOMAIN b.items
    THEN [bank |-> [b EXCEPT !.items = [i \in DOMAIN b.items |->
                                          [b.items[i] EXCEPT !.in_srs = TRUE]]],
          ret  |-> TRUE]
    ELSE [bank |-> b, ret |-> FALSE]

\* the bank as the call leaves it, and the value returned
VocabularyBank_mark_in_srs(b, id) ==
    IF id \in DOMAIN b.items
    THEN [bank |-> [b EXCEPT !.items[id].in_srs = TRUE], ret |-> TRUE]
    ELSE [bank |-> b, ret |-> FALSE]

\* a.source.to_lowercase() == query_lower || a.target.to_lowercase() == query_lower
IsExact(item, query) ==
    \/ to_lowercase(item.source) = to_lowercase(query)
    \/ to_lowercase(item.target) = to_lowercase(query)

SortByRelevance_Unsorted(results, query) == results

\* results.sort_by(|a, b| b_exact.cmp(&a_exact)): a stable sort on a key of
\* two values
SortByRelevance(results, query) ==
    SelectSeq(results, LAMBDA it : IsExact(it, query))
        \o SelectSeq(results, LAMBDA it : ~IsExact(it, query))

\* results.truncate(limit) for limit: Option<usize>
Truncate(results, limit) ==
    IF limit = None THEN results
    ELSE IF limit[2] < Len(results) THEN SubSeq(results, 1, limit[2]) ELSE results

\* order: the ids of the stored items in the order items.values() yields them
VocabularyBank_search(b, query, limit, order) ==
    LET values  == [n \in 1..Len(order) |-> b.items[order[n]]]
        results == SelectSeq(values, LAMBDA it : matches_query(it, query))
    IN  Truncate(SortByRelevance(results, query), limit)

\* self.items.values().collect(), in the order the map yields its values
VocabularyBank_all(b, order) == [n \in 1..Len(order) |-> b.items[order[n]]]

\* self.items.values().filter(|item| !item.in_srs).collect()
VocabularyBank_not_in_srs(b, order) ==
    SelectSeq(VocabularyBank_all(b, order), LAMBDA it : ~it.in_srs)

\* VocabularyCategory::display_name
display_name(category) ==
    CASE category = "Noun"         -> "Noun"
      [] category = "Verb"         -> "Verb"
      [] category = "Adjective"    -> "Adjective"
      [] category = "Adverb"       -> "Adverb"
      [] category = "Pronoun"      -> "Pronoun"
      [] category = "Preposition"  -> "Preposition"
      [] category = "Conjunction"  -> "Conjunction"
      [] category = "Interjection" -> "Interjection"
      [] category = "Phrase"       -> "Phrase"
      [] category = "Expression"   -> "Expression"
      [] category = "Idiom"        -> "Idiom"
      [] category = "Grammar"      -> "Grammar"
      [] category = "Other"        -> "Other"

VocabularyBank_stats(b) ==
    LET total  == Cardinality(DOMAIN b.items)
        in_srs == Cardinality({id \in DOMAIN b.items : b.items[id].in_srs})
        names  == {display_name(c) : c \in DOMAIN b.by_category}
    IN  [ total       |-> total,
          in_srs      |-> in_srs,
          not_in_srs  |-> total - in_srs,
          by_level    |-> [level \in DOMAIN b.by_level |-> Len(b.by_level[level])],
          by_category |-> [name \in names |->
                             Len(b.by_category[CHOOSE c \in DOMAIN b.by_category :
                                                   display_name(c) = name])] ]

\* the orders in which a HashMap may yield the keys in S
Orders(S) ==
    {o \in [1..Cardinality(S) -> S] : \A i, j \in 1..Cardinality(S) : i # j => o[i] # o[j]}

\* no call made yet
NoCall ==
    /\ bank = VocabularyBank_new
    /\ op = <<"none">>
    /\ ret = <<>>

\* a card that is not under review
NoCard ==
    /\ card = SRSCard_new("vocab_001", "hello", "ola", "en_to_pt_br", "A1",
                          "greetings", D_2024_01_15)
    /\ update = None
    /\ quality = 0
    /\ current_date = <<>>
    /\ pc = "idle"
    /\ panicked = FALSE

----------------------------------------------------------------------------
(* The caller: rust/src/api.rs calculate_srs_review, apply_srs_update *)

\* the computed update, when there is one
U == update[2]

\* calculate_srs_review(card, q, d)
Calculate(q, d) ==
    /\ ~panicked
    /\ pc \in {"idle", "applied", "reapplied"}
    /\ LET r == calculate_next_review(card, q, d, overflow_checks)
       IN  IF r.panic
           THEN /\ panicked' = TRUE
                /\ UNCHANGED <<update, pc>>
           ELSE /\ update' = Some(SRSUpdate(r))
                /\ pc' = "calculated"
                /\ UNCHANGED panicked
    /\ quality' = q
    /\ current_date' = d
    /\ UNCHANGED <<card, overflow_checks, callVars>>

\* apply_srs_update(card, update, current_date)
Apply(from, to) ==
    /\ ~panicked
    /\ pc = from
    /\ LET r == apply_update(card, U, current_date, overflow_checks)
       IN  /\ card' = r.card
           /\ panicked' = r.panic
    /\ pc' = to
    /\ UNCHANGED <<update, quality, current_date, overflow_checks, callVars>>

\* a review: the update computed for the card is applied to it
ApplyUpdate == Apply("calculated", "applied")

\* the caller applies the same update to the card a second time
ApplyUpdateAgain == Apply("applied", "reapplied")

----------------------------------------------------------------------------
(* Spec: a card created by SRSCard::new and reviewed any number of times;   *)
(* the caller may apply a computed update a second time                    *)

Qualities == 0..MaxQuality

Init ==
    /\ card = SRSCard_new("vocab_001", "hello", "ola", "en_to_pt_br", "A1",
                          "greetings", D_2024_01_15)
    /\ update = None
    /\ quality = 0
    /\ current_date = <<>>
    /\ pc = "idle"
    /\ panicked = FALSE
    /\ overflow_checks \in BOOLEAN
    /\ NoCall

Review ==
    /\ card.total_reviews < MaxReviews
    /\ \E q \in Qualities, d \in ReviewDates : Calculate(q, d)

Next ==
    \/ Review
    \/ ApplyUpdate
    \/ ApplyUpdateAgain

Spec == Init /\ [][Next]_vars

----------------------------------------------------------------------------
(* SpecAny: calculate_next_review and apply_update on any card, such as one *)
(* restored from persisted data                                            *)

EaseInputs == {0, 100, 129, 130, 131, 144, 150, 200, 240, 250, 251, 264, 270, 300}
IntervalInputs == {0, 1, 2, 6, 15, 100, U32_MAX}
RepetitionInputs == {0, 1, 2, 3, 7, U32_MAX}
\* <<total_reviews, correct_reviews>>
ReviewCountInputs == {<<0, 0>>, <<5, 3>>, <<U32_MAX, U32_MAX>>}

InitAny ==
    /\ \E e \in EaseInputs, i \in IntervalInputs, r \in RepetitionInputs,
          n \in ReviewCountInputs :
          card = [ SRSCard_new("vocab_001", "hello", "ola", "en_to_pt_br", "A1",
                               "greetings", D_2023_12_31)
                   EXCEPT !.ease_factor     = e,
                          !.interval        = i,
                          !.repetitions     = r,
                          !.total_reviews   = n[1],
                          !.correct_reviews = n[2] ]
    /\ update = None
    /\ quality = 0
    /\ current_date = <<>>
    /\ pc = "idle"
    /\ panicked = FALSE
    /\ overflow_checks \in BOOLEAN
    /\ NoCall

CalculateAny ==
    /\ pc = "idle"
    /\ \E q \in Qualities, d \in Dates : Calculate(q, d)

NextAny ==
    \/ CalculateAny
    \/ ApplyUpdate

SpecAny == InitAny /\ [][NextAny]_vars

----------------------------------------------------------------------------
(* SpecDate: add_days_to_date on a date and a day count *)

\* largest day count of the contiguous range of day counts
MaxDays == 32

\* days since 1970-01-01 of a Gregorian date, and back (the reference
\* conversion the date arithmetic is compared with)
DaysFromCivil(y, m, d) ==
    LET yy  == IF m <= 2 THEN y - 1 ELSE y
        era == yy \div 400
        yoe == yy - era * 400
        mp  == IF m > 2 THEN m - 3 ELSE m + 9
        doy == (153 * mp + 2) \div 5 + d - 1
        doe == yoe * 365 + yoe \div 4 - yoe \div 100 + doy
    IN  era * 146097 + doe - 719468

CivilFromDays(z0) ==
    LET z   == z0 + 719468
        era == z \div 146097
        doe == z - era * 146097
        yoe == (doe - doe \div 1460 + doe \div 36524 - doe \div 146096) \div 365
        doy == doe - (365 * yoe + yoe \div 4 - yoe \div 100)
        mp  == (5 * doy + 2) \div 153
        d   == doy - (153 * mp + 2) \div 5 + 1
        m   == IF mp < 10 THEN mp + 3 ELSE mp - 9
        y   == yoe + era * 400
    IN  <<IF m <= 2 THEN y + 1 ELSE y, m, d>>

\* "YYYY-MM-DD", zero-padded
DateStr(y, m, d) == Pad(y, 4) \o <<DASH>> \o Pad(m, 2) \o <<DASH>> \o Pad(d, 2)

DateYears == {1900, 2000, 2023, 2024, 9999}
DateDays == {1, 15, 28, 29, 30, 31}

\* the dates of the calendar among the chosen years and days
ValidDates ==
    { DateStr(t[1], t[2], t[3]) :
        t \in { u \in DateYears \X (1..12) \X DateDays :
                  CivilFromDays(DaysFromCivil(u[1], u[2], u[3])) = u } }

\* "2024-01", "abcd-05-10", "2024-xx-10", "2024-05-zz"
MalformedDates ==
    { <<50,48,50,52,45,48,49>>,
      <<97,98,99,100,45,48,53,45,49,48>>,
      <<50,48,50,52,45,120,120,45,49,48>>,
      <<50,48,50,52,45,48,53,45,122,122>> }

DayCounts == (0..MaxDays) \cup {59, 60, 365, 366, 731, 1461}

InitDate ==
    /\ NoCard
    /\ overflow_checks \in BOOLEAN
    /\ NoCall

\* Self::add_days_to_date(date, days)
AddDaysToDate ==
    /\ op = <<"none">>
    /\ ~panicked
    /\ \E d \in ValidDates \cup MalformedDates, n \in DayCounts :
          LET r == add_days_to_date(d, n, overflow_checks)
          IN  /\ op' = <<"add_days_to_date", d, n>>
              /\ panicked' = r.panic
              /\ ret' = r.value
    /\ UNCHANGED <<card, update, quality, current_date, pc, overflow_checks, bank>>

NextDate == AddDaysToDate

SpecDate == InitDate /\ [][NextDate]_vars

----------------------------------------------------------------------------
(* SpecLong: a card reviewed again and again, with the same rating, on the  *)
(* day it was created, until its counters have gone round                  *)

D_9999_12_31 == <<57,57,57,57,45,49,50,45,51,49>>

LongDates == {D_2024_01_15, D_9999_12_31}
LongQualities == {0, 5}

InitLong ==
    /\ \E d \in LongDates :
          card = SRSCard_new("vocab_001", "hello", "ola", "en_to_pt_br", "A1", "greetings", d)
    /\ update = None
    /\ quality = 0
    /\ current_date = <<>>
    /\ pc = "idle"
    /\ panicked = FALSE
    /\ overflow_checks \in BOOLEAN
    /\ NoCall

ReviewLong ==
    \E q \in LongQualities :
        /\ pc = "idle" \/ q = quality
        /\ Calculate(q, card.created_at)

NextLong ==
    \/ ReviewLong
    \/ ApplyUpdate

SpecLong == InitLong /\ [][NextLong]_vars

----------------------------------------------------------------------------
(* SpecCard: the getters of SRSCard on any card *)

MaxRepetitions == 12

MasteryRepetitions == (0..MaxRepetitions) \cup {U32_MAX}
MasteryEase == {130, 199, 200, 201, 219, 220, 221, 239, 240, 241, 250}

InitCard ==
    /\ \E r \in MasteryRepetitions, e \in MasteryEase, n \in ReviewCountInputs :
          card = [ SRSCard_new("vocab_001", "hello", "ola", "en_to_pt_br", "A1",
                               "greetings", D_2023_12_31)
                   EXCEPT !.repetitions     = r,
                          !.ease_factor     = e,
                          !.total_reviews   = n[1],
                          !.correct_reviews = n[2] ]
    /\ update = None
    /\ quality = 0
    /\ current_date = <<>>
    /\ pc = "idle"
    /\ panicked = FALSE
    /\ overflow_checks \in BOOLEAN
    /\ NoCall

\* card.mastery_level()
MasteryLevel ==
    /\ op = <<"none">>
    /\ op' = <<"mastery_level">>
    /\ ret' = mastery_level(card)
    /\ UNCHANGED <<cardVars, overflow_checks, bank>>

NextCard == MasteryLevel

SpecCard == InitCard /\ [][NextCard]_vars

----------------------------------------------------------------------------
(* SpecCards: the operations on a collection of cards *)

\* most cards in a collection
MaxCards == 3

\* <<word_id, ease_factor, repetitions, next_review_date, total_reviews,
\*   correct_reviews>>: a new card, and cards of every mastery level, due
\* before, on and after the dates asked about
CardInputs ==
    { [ SRSCard_new(t[1], "hello", "ola", "en_to_pt_br", "A1", "greetings", D_2023_12_31)
          EXCEPT !.ease_factor      = t[2],
                 !.repetitions      = t[3],
                 !.next_review_date = t[4],
                 !.total_reviews    = t[5],
                 !.correct_reviews  = t[6] ] :
        t \in { <<"c1", 250, 0, D_2023_12_31, 0, 0>>,
                <<"c2", 130, 1, D_2024_02_28, 5, 3>>,
                <<"c3", 250, 4, D_2023_12_31, 100, 53>>,
                <<"c4", 220, 7, D_2024_01_15, 10, 7>>,
                <<"c5", 240, 11, D_2024_02_28, 4, 4>>,
                <<"c6", 130, 0, D_2024_01_15, 1, 0>> } }

CardSeqs == UNION {[1..n -> CardInputs] : n \in 0..MaxCards}

EaseThresholds == {130, 200, 251}
AccuracyThresholds == {0, 53, 60, 61, 100}

InitCards ==
    /\ NoCard
    /\ overflow_checks = FALSE
    /\ NoCall

\* SRSCardStats::from_cards(&cards, &current_date)
FromCards ==
    /\ op = <<"none">>
    /\ \E cards \in CardSeqs, date \in Dates :
          /\ op' = <<"from_cards", cards, date>>
          /\ ret' = SRSCardStats_from_cards(cards, date)
    /\ UNCHANGED <<cardVars, overflow_checks, bank>>

\* SRSScheduler::sort_by_priority(&mut cards, current_date)
SortByPriority ==
    /\ op = <<"none">>
    /\ \E cards \in CardSeqs, date \in Dates :
          /\ op' = <<"sort_by_priority", cards, date>>
          /\ ret' = sort_by_priority(cards, date)
    /\ UNCHANGED <<cardVars, overflow_checks, bank>>

\* SRSScheduler::get_weak_cards(&cards, ease_threshold, accuracy_threshold)
GetWeakCards ==
    /\ op = <<"none">>
    /\ \E cards \in CardSeqs, et \in EaseThresholds, at \in AccuracyThresholds :
          /\ op' = <<"get_weak_cards", cards, et, at>>
          /\ ret' = get_weak_cards(cards, et, at)
    /\ UNCHANGED <<cardVars, overflow_checks, bank>>

NextCards ==
    \/ FromCards
    \/ SortByPriority
    \/ GetWeakCards

SpecCards == InitCards /\ [][NextCards]_vars

----------------------------------------------------------------------------
(* SpecBank: a VocabularyBank under add, remove, mark_in_srs and search;    *)
(* SpecBankEdit: the mutating operations, with edits of a stored item      *)
(* through get_mut                                                         *)

\* most ids an index may hold, over all its keys, when add is called
MaxIndexEntries == 3

W_go   == <<103, 111>>
W_Go   == <<71, 111>>
W_GO   == <<71, 79>>
W_AGO  == <<65, 71, 79>>
W_good == <<103, 111, 111, 100>>
W_ir   == <<105, 114>>
W_bom  == <<98, 111, 109>>
W_oi   == <<111, 105>>
W_hi   == <<104, 105>>

Ids == {"v1", "v2", "v3"}
Levels == {"A1", "B1"}
Lessons == {"L1", "L2"}
LanguagePairs == {"en_to_pt_br", "pt_br_to_en"}
Categories == {"Verb", "Noun", "Adjective"}

\* the items the caller adds: v1 in two versions with different keys, the
\* second matching "go" by its target; v2 matching "go" in part; v3 matching
\* it by a tag only
ItemInputs ==
    { VocabularyItem_new("v1", W_Go, W_ir, "L1", "A1", "en_to_pt_br", "Verb", D_2024_01_15),
      VocabularyItem_new("v1", W_ir, W_GO, "L2", "B1", "pt_br_to_en", "Noun", D_2024_01_15),
      VocabularyItem_new("v2", W_good, W_bom, "L1", "A1", "en_to_pt_br", "Adjective",
                         D_2024_01_15),
      [ VocabularyItem_new("v3", W_hi, W_oi, "L2", "A1", "en_to_pt_br", "Noun", D_2024_01_15)
          EXCEPT !.tags = <<W_AGO>> ] }

Queries == {W_go, W_GO, W_ir}
Limits == {None, Some(0), Some(1), Some(2)}

RECURSIVE SumLen(_, _)
SumLen(index, keys) ==
    IF keys = {} THEN 0
    ELSE LET k == CHOOSE x \in keys : TRUE
         IN  Len(index[k]) + SumLen(index, keys \ {k})

IndexSize(index) == SumLen(index, DOMAIN index)

InitBank ==
    /\ NoCard
    /\ overflow_checks = FALSE
    /\ NoCall

\* bank.add(item)
Add ==
    /\ IndexSize(bank.by_level) < MaxIndexEntries
    /\ IndexSize(bank.by_lesson) < MaxIndexEntries
    /\ IndexSize(bank.by_language_pair) < MaxIndexEntries
    /\ IndexSize(bank.by_category) < MaxIndexEntries
    /\ \E item \in ItemInputs :
          /\ bank' = VocabularyBank_add(bank, item)
          /\ op' = <<"add", item>>
    /\ ret' = <<>>
    /\ UNCHANGED <<cardVars, overflow_checks>>

\* bank.remove(id)
Remove ==
    /\ \E id \in Ids :
          LET r == VocabularyBank_remove(bank, id)
          IN  /\ bank' = r.bank
              /\ ret' = r.ret
              /\ op' = <<"remove", id>>
    /\ UNCHANGED <<cardVars, overflow_checks>>

\* bank.mark_in_srs(id)
MarkInSrs ==
    /\ \E id \in Ids :
          LET r == VocabularyBank_mark_in_srs(bank, id)
          IN  /\ bank' = r.bank
              /\ ret' = r.ret
              /\ op' = <<"mark_in_srs", id>>
    /\ UNCHANGED <<cardVars, overflow_checks>>

\* bank.search(query, limit)
Search ==
    /\ \E query \in Queries, limit \in Limits, order \in Orders(DOMAIN bank.items) :
          /\ ret' = VocabularyBank_search(bank, query, limit, order)
          /\ op' = <<"search", query, limit>>
    /\ UNCHANGED <<cardVars, overflow_checks, bank>>

\* bank.stats()
Stats ==
    /\ ret' = VocabularyBank_stats(bank)
    /\ op' = <<"stats">>
    /\ UNCHANGED <<cardVars, overflow_checks, bank>>

\* if let Some(item) = bank.get_mut(id) { item.level = level }
EditLevel ==
    /\ \E id \in DOMAIN bank.items, level \in Levels :
          /\ bank' = [bank EXCEPT !.items[id].level = level]
          /\ op' = <<"get_mut", id, level>>
    /\ ret' = <<>>
    /\ UNCHANGED <<cardVars, overflow_checks>>

NextBank ==
    \/ Add
    \/ Remove
    \/ MarkInSrs
    \/ Search
    \/ Stats

SpecBank == InitBank /\ [][NextBank]_vars

NextBankEdit ==
    \/ Add
    \/ Remove
    \/ MarkInSrs
    \/ EditLevel

SpecBankEdit == InitBank /\ [][NextBankEdit]_vars

----------------------------------------------------------------------------
(* Properties of the scheduler *)

\* C1: from a card created by SRSCard::new, after any sequence of reviews
\* the ease factor is within [1.3, 2.5] in every state.
C1_EaseFactorInBand == card.ease_factor >= 130 /\ card.ease_factor <= 250

\* seven failed reviews: the lower clamp has acted
C1_Witness ==
    /\ pc = "applied"
    /\ card.total_reviews = 7
    /\ card.correct_reviews = 0
    /\ card.ease_factor = 130

\* C2: for every card and every quality >= 3, calculate_next_review returns
\* new_repetitions = card.repetitions + 1 and new_interval >= 1, whatever the
\* card's interval and repetitions.
C2_SuccessAdvances ==
    (pc = "calculated" /\ quality >= 3) =>
        /\ U.new_repetitions = card.repetitions + 1
        /\ U.new_interval >= 1

\* C3: for every card and every quality in 0..2 the update is unsuccessful,
\* resets repetitions to 0 and the interval to 1, and lowers the ease factor
\* by 0.2 but not below 1.3.
C3_FailedReviewResets ==
    (pc = "calculated" /\ quality <= 2) =>
        /\ U.was_successful = FALSE
        /\ U.new_repetitions = 0
        /\ U.new_interval = 1
        /\ U.new_ease_factor =
              (IF card.ease_factor - 20 >= 130 THEN card.ease_factor - 20 ELSE 130)

C3_Witness ==
    /\ pc = "calculated"
    /\ quality = 1
    /\ card.repetitions = 7
    /\ card.interval = 15
    /\ card.ease_factor = 200
    /\ U.new_ease_factor = 180

\* round to the nearest integer, halves away from zero, of a non-negative
\* value given in hundredths, converted to u32 (the conversion saturates)
C4_Round(h) == IF (h + 50) \div 100 > U32_MAX THEN U32_MAX ELSE (h + 50) \div 100

\* C4: on a successful review the new interval is 1 when new_repetitions = 1
\* and 6 when new_repetitions = 2, whatever the quality, the previous
\* interval and the ease; from new_repetitions = 3 on it is the rounded product
\* of the interval and the ease factor the card had before the review.
C4_IntervalSchedule ==
    (pc = "calculated" /\ quality >= 3) =>
        /\ U.new_repetitions = 1 => U.new_interval = 1
        /\ U.new_repetitions = 2 => U.new_interval = 6
        /\ U.new_repetitions >= 3 =>
              U.new_interval = C4_Round(card.interval * card.ease_factor)

\* third success with quality 3: 6 * 2.50 = 15, where the new ease 2.36
\* would give 14
C4_Witness ==
    /\ pc = "calculated"
    /\ quality = 3
    /\ card.repetitions = 2
    /\ card.interval = 6
    /\ card.ease_factor = 250
    /\ U.new_repetitions = 3
    /\ U.new_interval = 15
    /\ U.new_ease_factor = 236

\* d(5) = +0.10, d(4) = 0.00, d(3) = -0.14
C5_d(q) == IF q = 5 THEN 10 ELSE IF q = 4 THEN 0 ELSE 0 - 14

\* C5: on a successful review the new ease factor is the old one plus d(q),
\* clamped to [1.3, 2.5]; hence, for a card whose ease factor is in the band,
\* quality 5 never lowers it, quality 4 leaves it unchanged and quality 3
\* never raises it.
C5_SuccessEase ==
    (pc = "calculated" /\ quality >= 3) =>
        LET q   == IF quality > 5 THEN 5 ELSE quality
            raw == card.ease_factor + C5_d(q)
        IN  /\ U.new_ease_factor =
                  (IF raw < 130 THEN 130 ELSE IF raw > 250 THEN 250 ELSE raw)
            /\ (card.ease_factor >= 130 /\ card.ease_factor <= 250) =>
                  /\ q = 5 => U.new_ease_factor >= card.ease_factor
                  /\ q = 4 => U.new_ease_factor = card.ease_factor
                  /\ q = 3 => U.new_ease_factor <= card.ease_factor

C5_Witness ==
    /\ pc = "calculated"
    /\ quality = 3
    /\ card.ease_factor = 200
    /\ U.new_ease_factor = 186

\* C6: for every card, one whose ease factor is outside [1.3, 2.5] included,
\* and every quality, the new ease factor is within [1.3, 2.5].
C6_UpdateEaseInBand ==
    pc = "calculated" => (U.new_ease_factor >= 130 /\ U.new_ease_factor <= 250)

\* C7: a quality above 5 is not rejected: the update is the one quality 5
\* gives, with quality = 5 and was_successful, and the last_quality that
\* apply_update stores is in 0..5.
C7_QualityClamped ==
    /\ (pc = "calculated" /\ quality > 5) =>
          /\ U = SRSUpdate(calculate_next_review(card, 5, current_date, overflow_checks))
          /\ U.quality = 5
          /\ U.was_successful
    /\ (pc = "idle" /\ panicked /\ quality > 5) =>
          calculate_next_review(card, 5, current_date, overflow_checks).panic
    /\ pc = "applied" => card.last_quality \in {Some(k) : k \in 0..5}

C7_Witness ==
    /\ pc = "applied"
    /\ quality = 6
    /\ card.last_quality = Some(5)
    /\ card.repetitions = 3

\* C8: apply_update sets ease_factor, interval, repetitions and
\* next_review_date to the update's values, last_reviewed to current_date,
\* last_quality to update.quality, adds 1 to total_reviews and adds 1 to
\* correct_reviews iff the update was successful; every other field of the
\* card is left as it was.
C8_ApplyFrame ==
    [][ (pc' # pc /\ pc' \in {"applied", "reapplied"}) =>
          /\ card'.ease_factor = U.new_ease_factor
          /\ card'.interval = U.new_interval
          /\ card'.repetitions = U.new_repetitions
          /\ card'.next_review_date = U.next_review_date
          /\ card'.last_reviewed = Some(current_date)
          /\ card'.last_quality = Some(U.quality)
          /\ card'.total_reviews = card.total_reviews + 1
          /\ card'.correct_reviews =
                card.correct_reviews + (IF U.was_successful THEN 1 ELSE 0)
          /\ card'.word_id = card.word_id
          /\ card'.source_word = card.source_word
          /\ card'.target_word = card.target_word
          /\ card'.language_pair = card.language_pair
          /\ card'.level = card.level
          /\ card'.lesson_id = card.lesson_id
          /\ card'.pronunciation = card.pronunciation
          /\ card'.example_sentence = card.example_sentence
          /\ card'.created_at = card.created_at
          /\ DOMAIN card' = DOMAIN card ]_vars

\* a failed review applied after a successful one
C8_Witness ==
    /\ pc = "applied"
    /\ card.total_reviews = 2
    /\ card.correct_reviews = 1
    /\ card.last_quality = Some(1)
    /\ card.last_reviewed = Some(current_date)

\* C9: apply_update is idempotent: applying the same update to a card a
\* second time with the same current_date leaves the card as the first
\* application left it.
C9_Idempotent ==
    [][ (pc = "applied" /\ pc' = "reapplied") => card' = card ]_vars

\* C9 as amended: the second application leaves the scheduling fields,
\* last_reviewed and last_quality as the first left them, and counts as one
\* more review: total_reviews grows by 1 again, and correct_reviews too when
\* the update was successful.
C9_ReapplyCountsAgain ==
    [][ (pc = "applied" /\ pc' = "reapplied") =>
          card' = [ card EXCEPT !.total_reviews = @ + 1,
                                !.correct_reviews =
                                    IF U.was_successful THEN @ + 1 ELSE @ ] ]_vars

\* the second success (interval 6) applied twice
C9_Witness ==
    /\ pc = "reapplied"
    /\ card.total_reviews = 3
    /\ card.correct_reviews = 3
    /\ card.repetitions = 2
    /\ card.interval = 6

----------------------------------------------------------------------------
(* Properties of the date arithmetic *)

\* the number written in characters i..j of a date
DateField(s, i, j) == DigitsValue(SubSeq(s, i, j), 0, 99999)

\* C11: for every valid date d and day count n >= 0, add_days_to_date(d, n)
\* is the date the reference conversion gives: d as a day number, plus n,
\* converted back (month ends, 28- and 29-day Februaries and year ends
\* included).
C11_CalendarCorrect ==
    (op[1] = "add_days_to_date" /\ op[2] \in ValidDates) =>
        LET t == CivilFromDays(DaysFromCivil(DateField(op[2], 1, 4), DateField(op[2], 6, 7),
                                             DateField(op[2], 9, 10)) + op[3])
        IN  /\ ~panicked
            /\ ret = DateStr(t[1], t[2], t[3])

\* 1900-02-28 + 1 = 1900-03-01: 1900 is divisible by 100 and not by 400
C11_Witness ==
    /\ op = <<"add_days_to_date", DateStr(1900, 2, 28), 1>>
    /\ ret = DateStr(1900, 3, 1)

\* zero-padded "YYYY-MM-DD": ten characters, digits around two dashes
IsDateShaped(s) ==
    /\ Len(s) = 10
    /\ \A i \in {1, 2, 3, 4, 6, 7, 9, 10} : IsDigit(s[i])
    /\ s[5] = DASH /\ s[8] = DASH

\* C12: for every valid date d and n >= 1, add_days_to_date(d, n) is again a
\* zero-padded ten-character YYYY-MM-DD string, is lexicographically greater
\* than d, and is lexicographically greater than the result for every
\* smaller day count.
C12_FormatAndOrder ==
    (op[1] = "add_days_to_date" /\ op[2] \in ValidDates /\ op[3] >= 1) =>
        /\ IsDateShaped(ret)
        /\ ~StrLe(ret, op[2])
        /\ \A n1 \in DayCounts :
              n1 < op[3] => ~StrLe(ret, add_days_to_date(op[2], n1, overflow_checks).value)

\* C13: given a malformed date the date arithmetic does not raise and falls
\* back to one fixed default: the result does not vary with the malformed
\* input.
C13_FixedDefault ==
    (op[1] = "add_days_to_date" /\ op[2] \in MalformedDates) =>
        /\ ~panicked
        /\ \A other \in MalformedDates :
              add_days_to_date(other, op[3], overflow_checks).value = ret

----------------------------------------------------------------------------
(* Properties of the card *)

\* C14: mastery_level is a function of (repetitions, ease_factor) alone:
\* New when repetitions is 0; Learning when 1..2; Familiar when 3..5 and the
\* ease factor is at least 2.0; Proficient when 6..10 and at least 2.2;
\* Mastered when above 10 and at least 2.4; Learning in every other case.
C14_Level(r, ef) ==
    CASE r = 0                     -> "New"
      [] r \in {1, 2}              -> "Learning"
      [] r \in {3, 4, 5} /\ ef >= 200          -> "Familiar"
      [] r >= 6 /\ r <= 10 /\ ef >= 220        -> "Proficient"
      [] r > 10 /\ ef >= 240                   -> "Mastered"
      [] OTHER                                 -> "Learning"

C14_MasteryTable ==
    op[1] = "mastery_level" => ret = C14_Level(card.repetitions, card.ease_factor)

C14_Witness ==
    /\ op[1] = "mastery_level"
    /\ card.repetitions = 6
    /\ card.ease_factor = 219
    /\ ret = "Learning"

\* C15: in every state reached from a new card by reviews, the card's mastery
\* level is New exactly when its total_reviews is 0, so that the new_cards
\* count of the statistics equals the number of cards get_new_cards returns.
C15_NewIffNeverReviewed ==
    (pc \in {"idle", "applied"} /\ ~panicked) =>
        ((mastery_level(card) = "New") <=> (card.total_reviews = 0))

----------------------------------------------------------------------------
(* Properties of the vocabulary bank *)

C16_Under(index, k, id) ==
    /\ k \in DOMAIN index
    /\ \E n \in 1..Len(index[k]) : index[k][n] = id

C16_Listed(index, id) == \E k \in DOMAIN index : C16_Under(index, k, id)

\* C16: in every state of the bank reached by add (also of an id already
\* present, with other keys), remove, mark_in_srs and edits through get_mut,
\* every id listed in one of the four indices is a key of the item map, and
\* every stored item's id is listed under the item's own level, lesson_id,
\* language_pair and category.
C16_IndexConsistent ==
    /\ \A id \in Ids :
          (\/ C16_Listed(bank.by_level, id)
           \/ C16_Listed(bank.by_lesson, id)
           \/ C16_Listed(bank.by_language_pair, id)
           \/ C16_Listed(bank.by_category, id)) => id \in DOMAIN bank.items
    /\ \A id \in DOMAIN bank.items :
          LET it == bank.items[id]
          IN  /\ C16_Under(bank.by_level, it.level, id)
              /\ C16_Under(bank.by_lesson, it.lesson_id, id)
              /\ C16_Under(bank.by_language_pair, it.language_pair, id)
              /\ C16_Under(bank.by_category, it.category, id)

\* C17: after any adds and removes, a remove(id) that returns an item leaves
\* get(id) = None and leaves id in no list of the four indices, under any key.
C17_RemoveLeavesNoId ==
    (op[1] = "remove" /\ ret[1] = "Some") =>
        /\ VocabularyBank_get(bank, op[2]) = None
        /\ ~C16_Listed(bank.by_level, op[2])
        /\ ~C16_Listed(bank.by_lesson, op[2])
        /\ ~C16_Listed(bank.by_language_pair, op[2])
        /\ ~C16_Listed(bank.by_category, op[2])

\* r holds exactly the stored items whose field f is k, each once
C18_Exact(r, f, k) ==
    /\ \A n \in 1..Len(r) :
          /\ r[n].id \in DOMAIN bank.items
          /\ r[n] = bank.items[r[n].id]
          /\ r[n][f] = k
    /\ \A id \in DOMAIN bank.items :
          bank.items[id][f] = k => Cardinality({n \in 1..Len(r) : r[n].id = id}) = 1

\* C18: in every state of the bank reached by add and remove, by_level(k),
\* by_lesson(k), by_language_pair(k) and by_category(k) return exactly the
\* stored items whose own key is k, each once, and the empty list for a key
\* that no stored item has.
C18_LookupExact ==
    /\ \A k \in Levels \cup {"C2"} :
          C18_Exact(VocabularyBank_by_level(bank, k), "level", k)
    /\ \A k \in Lessons \cup {"L9"} :
          C18_Exact(VocabularyBank_by_lesson(bank, k), "lesson_id", k)
    /\ \A k \in LanguagePairs \cup {"en_to_es"} :
          C18_Exact(VocabularyBank_by_language_pair(bank, k), "language_pair", k)
    /\ \A k \in Categories \cup {"Idiom"} :
          C18_Exact(VocabularyBank_by_category(bank, k), "category", k)

\* C19: mark_in_srs(id) returns false and changes nothing when id is absent;
\* when id is present it returns true, sets that item's in_srs and nothing
\* else: the same ids are stored, every other item and the four indices are
\* as before, and marking again changes nothing more.
C19_MarkFrame ==
    [][ op'[1] = "mark_in_srs" =>
          LET id == op'[2]
          IN  IF id \notin DOMAIN bank.items
              THEN /\ ret' = FALSE
                   /\ bank' = bank
              ELSE /\ ret' = TRUE
                   /\ DOMAIN bank'.items = DOMAIN bank.items
                   /\ VocabularyBank_get(bank', id)
                        = Some([bank.items[id] EXCEPT !.in_srs = TRUE])
                   /\ VocabularyBank_len(bank') = VocabularyBank_len(bank)
                   /\ \A o \in DOMAIN bank.items \ {id} : bank'.items[o] = bank.items[o]
                   /\ bank'.by_level = bank.by_level
                   /\ bank'.by_lesson = bank.by_lesson
                   /\ bank'.by_language_pair = bank.by_language_pair
                   /\ bank'.by_category = bank.by_category
                   /\ VocabularyBank_mark_in_srs(bank', id) = [bank |-> bank', ret |-> TRUE]
      ]_vars

C19_Witness ==
    /\ op = <<"mark_in_srs", "v1">>
    /\ ret = TRUE
    /\ {"v1", "v2"} \subseteq DOMAIN bank.items
    /\ bank.items["v1"].in_srs
    /\ ~bank.items["v2"].in_srs

C20_Matches(item, query) ==
    \/ Contains(to_lowercase(item.source), to_lowercase(query))
    \/ Contains(to_lowercase(item.target), to_lowercase(query))
    \/ \E t \in 1..Len(item.tags) : Contains(to_lowercase(item.tags[t]), to_lowercase(query))

C20_Equals(item, query) ==
    \/ to_lowercase(item.source) = to_lowercase(query)
    \/ to_lowercase(item.target) = to_lowercase(query)

\* C20: search(query, limit) returns only stored items whose source, target
\* or some tag contains the query without regard to case, each at most once;
\* the items whose source or target equals the query come before the others;
\* with limit n the result has min(n, number of matching items) entries, so
\* that no exact match is dropped while a partial one is kept.
C20_SearchResult ==
    op[1] = "search" =>
        LET query    == op[2]
            limit    == op[3]
            stored   == {bank.items[id] : id \in DOMAIN bank.items}
            matching == {it \in stored : C20_Matches(it, query)}
        IN  /\ \A n \in 1..Len(ret) : ret[n] \in matching
            /\ \A i, j \in 1..Len(ret) : i # j => ret[i] # ret[j]
            /\ \A i, j \in 1..Len(ret) :
                  (i < j /\ C20_Equals(ret[j], query)) => C20_Equals(ret[i], query)
            /\ Len(ret) = IF limit = None THEN Cardinality(matching)
                          ELSE Min(limit[2], Cardinality(matching))
            /\ (\E n \in 1..Len(ret) : ~C20_Equals(ret[n], query)) =>
                  \A it \in matching :
                      C20_Equals(it, query) => \E n \in 1..Len(ret) : ret[n] = it

C20_Witness ==
    /\ op = <<"search", W_go, Some(1)>>
    /\ DOMAIN bank.items = {"v1", "v2", "v3"}
    /\ Len(ret) = 1
    /\ ret[1].id = "v1"

\* the count a statistics map reports for a key
C21_Count(m, k) == IF k \in DOMAIN m THEN m[k] ELSE 0

\* C21: in every state of the bank reached by add (also of an id already
\* present), remove and mark_in_srs, stats() reports total = the number of
\* stored items, in_srs + not_in_srs = total, by_level[k] = the number of
\* stored items whose level is k and by_category[display name of c] = the
\* number of stored items whose category is c.
C21_StatsCounts ==
    op[1] = "stats" =>
        /\ ret.total = Cardinality(DOMAIN bank.items)
        /\ ret.in_srs + ret.not_in_srs = ret.total
        /\ \A k \in Levels \cup {"C2"} :
              C21_Count(ret.by_level, k)
                = Cardinality({id \in DOMAIN bank.items : bank.items[id].level = k})
        /\ \A c \in Categories \cup {"Idiom"} :
              C21_Count(ret.by_category, display_name(c))
                = Cardinality({id \in DOMAIN bank.items : bank.items[id].category = c})

\* what a caller can observe of the bank b; the calls that iterate over the
\* item map are observed as the set of their results
C30_Observables(b) ==
    [ get              |-> [id \in Ids |-> VocabularyBank_get(b, id)],
      len              |-> VocabularyBank_len(b),
      all              |-> {VocabularyBank_all(b, o)[n] : n \in 1..VocabularyBank_len(b),
                                                          o \in Orders(DOMAIN b.items)},
      not_in_srs       |-> {VocabularyBank_not_in_srs(b, o) : o \in Orders(DOMAIN b.items)},
      by_level         |-> [k \in Levels |-> VocabularyBank_by_level(b, k)],
      by_lesson        |-> [k \in Lessons |-> VocabularyBank_by_lesson(b, k)],
      by_language_pair |-> [k \in LanguagePairs |-> VocabularyBank_by_language_pair(b, k)],
      by_category      |-> [k \in Categories |-> VocabularyBank_by_category(b, k)],
      search           |-> [q \in Queries |-> [l \in Limits |->
                              {VocabularyBank_search(b, q, l, o) :
                                  o \in Orders(DOMAIN b.items)}]],
      stats            |-> VocabularyBank_stats(b) ]

\* C30: adding an item whose id is not in the bank and then removing that id
\* restores every observable of the bank: get, len, all, not_in_srs, the four
\* lookups for every key, search for every query, and stats() with the key
\* sets of its by_level and by_category maps; and remove of an id that is
\* not in the bank returns None and changes nothing.
C30_AddRemoveRestores ==
    /\ \A item \in ItemInputs :
          item.id \notin DOMAIN bank.items =>
              C30_Observables(VocabularyBank_remove(VocabularyBank_add(bank, item),
                                                    item.id).bank)
                = C30_Observables(bank)
    /\ \A id \in Ids \ DOMAIN bank.items :
          VocabularyBank_remove(bank, id) = [bank |-> bank, ret |-> None]

----------------------------------------------------------------------------
(* Properties of collections of cards *)

C22_Count(cards, P(_)) == Cardinality({n \in 1..Len(cards) : P(cards[n])})

\* C22: for every collection of cards and date, from_cards returns
\* total_cards = the number of cards, due_today = the number of cards whose
\* next review date is not after the date, and the five mastery counts sum
\* to total_cards; for the empty collection every field is zero, and when no
\* card has been reviewed average_accuracy is 0.
C22_FromCards ==
    op[1] = "from_cards" =>
        LET cards == op[2]
            date  == op[3]
            Due(c) == StrLe(c.next_review_date, date)
            Reviewed(c) == c.total_reviews > 0
        IN  /\ ~panicked
            /\ ret.total_cards = Len(cards)
            /\ ret.due_today = C22_Count(cards, Due)
            /\ ret.new_cards + ret.learning_cards + ret.familiar_cards
                  + ret.proficient_cards + ret.mastered_cards = ret.total_cards
            /\ Len(cards) = 0 =>
                  /\ ret.total_cards = 0 /\ ret.due_today = 0
                  /\ ret.average_ease_factor = F32_ZERO
                  /\ ret.average_accuracy = F32_ZERO
            /\ C22_Count(cards, Reviewed) = 0 => ret.average_accuracy = F32_ZERO

C22_Witness ==
    /\ op[1] = "from_cards"
    /\ Len(op[2]) = 3
    /\ op[3] = D_2024_01_15
    /\ ret.due_today = 2
    /\ ret.new_cards = 1
    /\ ret.mastered_cards = 1

C23_Key(c, date) == <<IF StrLe(c.next_review_date, date) THEN 0 ELSE 1, c.ease_factor>>

C23_KeyLe(k1, k2) == k1[1] < k2[1] \/ (k1[1] = k2[1] /\ k1[2] <= k2[2])

\* C23: sort_by_priority leaves a permutation of the cards in which every
\* due card comes before every card that is not due, cards of the same due
\* status are in ascending order of ease factor, and cards equal in both
\* keep the order they had.
C23_SortedStable ==
    op[1] = "sort_by_priority" =>
        LET cards == op[2]
            date  == op[3]
        IN  /\ Len(ret) = Len(cards)
            /\ \A i, j \in 1..Len(ret) :
                  i < j => C23_KeyLe(C23_Key(ret[i], date), C23_Key(ret[j], date))
            /\ \A c \in CardInputs :
                  LET Same(x) == C23_Key(x, date) = C23_Key(c, date)
                  IN  SelectSeq(ret, Same) = SelectSeq(cards, Same)

C23_Witness ==
    /\ op[1] = "sort_by_priority"
    /\ op[3] = D_2024_01_15
    /\ Len(op[2]) = 3
    /\ op[2][1].word_id = "c5"
    /\ op[2][2].word_id = "c3"
    /\ op[2][3].word_id = "c1"
    /\ ret = <<op[2][2], op[2][3], op[2][1]>>

\* C24: is_weak is true exactly when ease_factor < ease_threshold or the
\* accuracy rate is below accuracy_threshold, the accuracy rate being 0
\* without reviews and 100 * correct_reviews / total_reviews otherwise;
\* get_weak_cards returns exactly the cards for which that holds, in the
\* order of the input.
C24_WeakCards ==
    op[1] = "get_weak_cards" =>
        LET Weak(c) ==
                \/ c.ease_factor < op[3]
                \/ IF c.total_reviews = 0 THEN 0 < op[4]
                   ELSE 100 * c.correct_reviews < op[4] * c.total_reviews
        IN  ret = SelectSeq(op[2], Weak)

----------------------------------------------------------------------------
(* Properties of the reviews of one card *)

\* C25: for a card whose unsigned fields hold any value and a valid date,
\* calculate_next_review and apply_update neither panic nor overflow:
\* repetitions + 1, the sum of the day and the new interval, and
\* total_reviews + 1 and correct_reviews + 1 stay within the integer width.
C25_NoOverflow ==
    /\ ~panicked
    /\ (pc = "calculated" /\ U.was_successful) => card.repetitions + 1 <= U32_MAX
    /\ pc = "calculated" => DateField(current_date, 9, 10) + U.new_interval <= U32_MAX
    /\ pc = "applied" => card.total_reviews >= 1
    /\ (pc = "applied" /\ U.was_successful) => card.correct_reviews >= 1

\* the date k days after the valid date d, by the day count since the epoch
C26_Plus(d, k) ==
    LET t == CivilFromDays(DaysFromCivil(DateField(d, 1, 4), DateField(d, 6, 7),
                                         DateField(d, 9, 10)) + k)
    IN  DateStr(t[1], t[2], t[3])

\* C26: a card created on date d is due on d and on every later date; and
\* right after a review computed and applied with the date d, the card is
\* not due on d, is due on the date interval days after d, and is due on no
\* earlier date. The dates asked about are dates of the form YYYY-MM-DD.
C26_DueAfterInterval ==
    /\ (pc = "idle" /\ card.total_reviews = 0) =>
          \A k \in {0, 1, 31, 366} :
              IsDateShaped(C26_Plus(card.created_at, k)) =>
                  is_due(card, C26_Plus(card.created_at, k))
    /\ (pc = "applied" /\ ~panicked) =>
          /\ ~is_due(card, current_date)
          /\ IsDateShaped(C26_Plus(current_date, card.interval)) =>
                is_due(card, C26_Plus(current_date, card.interval))
          /\ \A k \in 0..(card.interval - 1) :
                IsDateShaped(C26_Plus(current_date, k)) =>
                    ~is_due(card, C26_Plus(current_date, k))

C27_Rank(level) ==
    CASE level = "New"        -> 0
      [] level = "Learning"   -> 1
      [] level = "Familiar"   -> 2
      [] level = "Proficient" -> 3
      [] level = "Mastered"   -> 4

\* C27: from a new card, a successful review (quality >= 3) never moves the
\* card to a lower mastery level in the order New < Learning < Familiar <
\* Proficient < Mastered.
C27_SuccessNeverDemotes ==
    [][ (pc = "calculated" /\ pc' = "applied" /\ ~panicked' /\ U.was_successful) =>
          C27_Rank(mastery_level(card')) >= C27_Rank(mastery_level(card)) ]_vars

\* C28: from a new card, a successful review never shortens the interval,
\* and a card that has been reviewed has an interval of at least 1.
C28_IntervalNeverShortens ==
    [][ (pc = "calculated" /\ pc' = "applied" /\ ~panicked') =>
          /\ U.was_successful => card'.interval >= card.interval
          /\ card'.total_reviews >= 1 => card'.interval >= 1 ]_vars

\* C29: from a new card, repetitions <= correct_reviews in every state, and
\* last_reviewed and last_quality are absent exactly when total_reviews = 0.
C29_CountersAgree ==
    ~panicked =>
        /\ card.repetitions <= card.correct_reviews
        /\ (card.last_reviewed = None) <=> (card.total_reviews = 0)
        /\ (card.last_quality = None) <=> (card.total_reviews = 0)

====
